---- MODULE Spec2Model ----
(***************************************************************************)
(* web2jsonfeed: the Deno service of src/app.js (lines 209-424).           *)
(*                                                                         *)
(* One request handler runs per inbound request.  JavaScript runs one job  *)
(* at a time, so a handler is atomic between two awaits; the model has one *)
(* action per such segment:                                                *)
(*   handler          entry .. first await (limiter, validation, cache     *)
(*                    lookup, page fetch issued)                           *)
(*   fetchWebContent  the page fetch settles; extractMainContent; then the *)
(*                    heuristic build (autoExtractContent) or the provider *)
(*                    POST of processWithAI is issued                      *)
(*   processWithAI    the provider call settles; the two decodes           *)
(*   store            myCache.set, setTimeout, the success response        *)
(*   evict            a setTimeout callback: myCache.delete(cacheKey)      *)
(*   Tick             Date.now() advances                                  *)
(* Time is in milliseconds, the resolution of Date.now() and of            *)
(* toISOString().                                                          *)
(***************************************************************************)
EXTENDS Integers, Sequences, FiniteSets, Bags, TLC

VARIABLES
  now,            \* Date.now()
  requestCounts,  \* createRateLimiter: Map ip -> {count, timestamp}
  myCache,        \* Map cacheKey -> result
  timers,         \* pending setTimeout callbacks: bag of [key, due]
  hs,             \* the request handlers in flight, by slot
  out,            \* what this step showed: a request's arrival, a response sent
  net,            \* what the network delivered to this step
  arrived,        \* history: per ip, requests seen since its window opened
  opened,         \* history: per ip, arrival time of the request that opened it
  insertedAt,     \* history: per cacheKey, time of the myCache.set that holds
  firstCached,    \* history: per cacheKey, first cached response of the TTL window
  nreq            \* requests issued so far (bounds the run)

vars == <<now, requestCounts, myCache, timers, hs, out, net, arrived, opened,
          insertedAt, firstCached, nreq>>

(***************************************************************************)
(* Bounds of the model.                                                    *)
(***************************************************************************)
MaxSlots == 2      \* handlers that may overlap
MaxOver == 2       \* requests past the limit in the rate-limiter runs
MaxOther == 2      \* requests of the second client in the rate-limiter runs
MaxPipe == 2       \* requests per run in the pipeline runs
MaxReq == 3        \* requests per run in the cache runs
MaxFeed == 1       \* requests per run in the feed-builder runs
MaxSub == 1        \* single-millisecond ticks past a coarse instant

Slots == 1 .. MaxSlots

(***************************************************************************)
(* Program constants.                                                      *)
(***************************************************************************)
CACHE_TTL == 300
WindowMs == 60 * 1000
MaxCount == 100
TtlMs == CACHE_TTL * 1000

\* JavaScript's undefined for a missing query parameter, once destructured.
Undefined == "(undefined)"

(***************************************************************************)
(* Strings the code inspects by prefix are sequences of characters.        *)
(***************************************************************************)
startsWith(s, p) == Len(s) >= Len(p) /\ SubSeq(s, 1, Len(p)) = p

S_http == <<"h", "t", "t", "p">>
S_host == <<":", "/", "/", "a", ".", "c", "o", "m">>
UrlHttp == S_http \o S_host                                    \* http://a.com
UrlHttps == S_http \o <<"s">> \o S_host \o <<"/", "x", "/">>   \* https://a.com/x/
UrlHttpx == S_http \o <<"x">>                                  \* httpx
UrlFtp == <<"f", "t", "p">> \o S_host                          \* ftp://a.com
UrlEmpty == <<>>

\* The same strings, whole, for the places that only copy or resolve them.
Str(u) ==
  CASE u = UrlHttp -> "http://a.com"
    [] u = UrlHttps -> "https://a.com/x/"
    [] u = UrlHttpx -> "httpx"
    [] u = UrlFtp -> "ftp://a.com"
    [] OTHER -> ""

\* A URL string the WHATWG parser accepts: fetch(url) and new URL(url) reject
\* the others with a TypeError.
ParsesAsUrl(u) == u \in {UrlHttp, UrlHttps, UrlFtp}

(***************************************************************************)
(* Requests.  A query is the object Object.fromEntries builds: it has a    *)
(* key only for a parameter that is present.                               *)
(***************************************************************************)
Get(q, k) == IF k \in DOMAIN q THEN q[k] ELSE Undefined
HasUrl(q) == "url" \in DOMAIN q
QAi(q) == Get(q, "ai")
QUrl(q) == IF HasUrl(q) THEN q.url ELSE UrlEmpty

AnalyzePath == "/api/analyze"

\* req.headers.get('x-forwarded-for') || '127.0.0.1'
ClientIp(req) ==
  IF "x-forwarded-for" \in DOMAIN req.headers /\ req.headers["x-forwarded-for"] # ""
    THEN req.headers["x-forwarded-for"]
    ELSE "127.0.0.1"

(***************************************************************************)
(* Responses.                                                              *)
(***************************************************************************)
MsgRateLimited == "rate limited"          \* '请求过于频繁，请稍后再试'
MsgBadUrl == "invalid url"                \* '无效的URL格式'
MsgBadAi == "invalid ai"                  \* '无效的AI服务参数'
MsgHttpError == "page http error"         \* `HTTP错误: ${response.status}`
MsgNoKey == "no api key"                  \* `未配置AI服务 ${serviceName} 的API密钥`
MsgAiHttpError == "ai http error"         \* `AI服务请求失败：${response.status}`
MsgParseFailed == "ai parse failed"       \* 'AI返回结果解析失败'
MsgTypeError == "TypeError"               \* a runtime TypeError's own message
MsgRangeError == "RangeError"             \* Invalid time value
MsgSyntaxError == "SyntaxError"           \* the JSON parser's own message
MsgNetwork == "network error"             \* fetch rejected

NoResp == [status |-> 0, message |-> "", data |-> <<>>, generated_at |-> 0]
ErrorResp(st, msg) == [status |-> st, message |-> msg, data |-> <<>>, generated_at |-> 0]
NotFoundResp == [status |-> 404, message |-> "Not Found", data |-> <<>>, generated_at |-> 0]
\* mutant: the timestamp is not taken afresh
SuccessResp_stale(result, t) ==
  [status |-> 200, message |-> "", data |-> <<result>>, generated_at |-> 0]

\* { status: "success", data: { ...result, generated_at: new Date().toISOString() } }
SuccessResp(result, t) == [status |-> 200, message |-> "", data |-> <<result>>, generated_at |-> t]

(***************************************************************************)
(* createRateLimiter (src/app.js 272-291).                                 *)
(***************************************************************************)
HasRecord(rc, ip) == ip \in DOMAIN rc

\* if (!record || now - record.timestamp > 60 * 1000)
FreshWindow(rc, ip, t) ==
  IF HasRecord(rc, ip) THEN t - rc[ip].timestamp > WindowMs ELSE TRUE

\* mutant: the limit test off by one
AtLimit_offByOne(record) == record.count > MaxCount

\* if (record.count >= 100) return false
AtLimit(record) == record.count >= MaxCount

\* the limiter's return value
limiter(rc, ip, t) ==
  IF FreshWindow(rc, ip, t) THEN TRUE
  ELSE IF AtLimit(rc[ip]) THEN FALSE
  ELSE TRUE

\* mutant: the increment of an open window is lost
limiterSet_lostUpdate(rc, ip, t) ==
  IF FreshWindow(rc, ip, t)
    THEN [x \in DOMAIN rc \cup {ip} |->
            IF x = ip THEN [count |-> 1, timestamp |-> t] ELSE rc[x]]
  ELSE rc

\* mutant: a rejected request restarts its client's window
limiterSet_restartsOnReject(rc, ip, t) ==
  IF FreshWindow(rc, ip, t)
    THEN [x \in DOMAIN rc \cup {ip} |->
            IF x = ip THEN [count |-> 1, timestamp |-> t] ELSE rc[x]]
  ELSE IF AtLimit(rc[ip]) THEN [rc EXCEPT ![ip].timestamp = t]
  ELSE [rc EXCEPT ![ip].count = @ + 1]

\* the limiter's effect on requestCounts
limiterSet(rc, ip, t) ==
  IF FreshWindow(rc, ip, t)
    THEN [x \in DOMAIN rc \cup {ip} |->
            IF x = ip THEN [count |-> 1, timestamp |-> t] ELSE rc[x]]
  ELSE IF AtLimit(rc[ip]) THEN rc
  ELSE [rc EXCEPT ![ip].count = @ + 1]

(***************************************************************************)
(* AI_SERVICES (src/app.js 248-269) and the environment's credentials.     *)
(***************************************************************************)
OwnKeys == {"openai", "claude", "zhipu", "xunfei"}

\* Names every object literal inherits from Object.prototype: AI_SERVICES[name]
\* is a function or an object, hence truthy, for each of them.
ObjectPrototypeKeys == {"constructor", "toString"}

\* Deno.env.get(<NAME>_API_KEY) is set for these providers in the modelled run.
Configured == {"openai"}

NoService == [kind |-> "undefined", apiKey |-> FALSE]

\* AI_SERVICES[ai]
AI_SERVICES(ai) ==
  IF ai \in OwnKeys THEN [kind |-> "service", apiKey |-> (ai \in Configured)]
  ELSE IF ai \in ObjectPrototypeKeys THEN [kind |-> "inherited", apiKey |-> FALSE]
  ELSE NoService

Truthy(v) == v # NoService
Falsy(s) == s = Undefined \/ s = ""

\* if (!url || !url.startsWith('http'))
BadUrl(q) == ~HasUrl(q) \/ q.url = UrlEmpty \/ ~startsWith(q.url, S_http)

\* mutant: the sentinel is not exempted
BadAi_noSentinel(ai) == ~Falsy(ai) /\ ~Truthy(AI_SERVICES(ai))

\* if (ai && !AI_SERVICES[ai] && ai !== 'rebot')
BadAi(ai) == ~Falsy(ai) /\ ~Truthy(AI_SERVICES(ai)) /\ ai # "rebot"

\* mutant: the credential is not checked
NoCredential_unchecked(service) == FALSE

\* if (!service.apiKey) throw ...
NoCredential(service) == ~service.apiKey

\* ai === 'rebot' || !ai
Heuristic(ai) == ai = "rebot" \/ Falsy(ai)

\* `analyze:${ai}:${url}`
ToStr(ai) == IF ai = Undefined THEN "undefined" ELSE ai
cacheKey(ai, url) == <<"analyze", ToStr(ai), url>>

(***************************************************************************)
(* Pages.  A page is what the selectors of autoExtractContent read from    *)
(* the parsed document; an attribute that is absent reads as <<>>, a       *)
(* present one as <<value>>.                                               *)
(***************************************************************************)
None == <<>>
Some(v) == <<v>>
IsSome(o) == o # <<>>
Val(o) == o[1]

\* a || b on optional strings: '' is falsy like undefined
Or(o, d) == IF IsSome(o) /\ Val(o) # "" THEN Val(o) ELSE d

\* Date strings: ISO(t) is new Date(t).toISOString().
ISO(t) == [valid |-> TRUE, ms |-> t]
DateText(n) == [valid |-> TRUE, ms |-> n]      \* a text Date can parse
DateJunk == [valid |-> FALSE, ms |-> 0]        \* a text Date cannot parse
NoText == ""

\* new URL(raw, base).href over the URL strings of the model.
AbsB == "https://b.com/p"
RelY == "../y.jpg"
BadRaw == "http://["
Origin(base) == IF base = "https://a.com/x/" THEN "https://a.com" ELSE "http://a.com"
Href(base) == IF base = "http://a.com" THEN "http://a.com/" ELSE base
CanResolve(raw) == raw # BadRaw
Resolve(raw, base) ==
  CASE raw = "" -> Href(base)
    [] raw = RelY -> Origin(base) \o "/y.jpg"
    [] raw \in {"http://a.com", "https://a.com/x/"} -> Href(raw)
    [] OTHER -> raw

Take(s, n) == IF Len(s) <= n THEN s ELSE SubSeq(s, 1, n)

PlaceholderItemTitle == "untitled item"   \* '未识别条目标题'
PlaceholderTitle == "untitled"            \* '未识别标题'
PlaceholderTag == "default tag"           \* '默认标签'
DefaultDescription == "auto description"  \* '自动解析的网页内容'
FeedVersion == "https://jsonfeed.org/version/1.1"

(***************************************************************************)
(* extractMainContent (src/app.js 385-389): the builders read the title,   *)
(* the url and the document handle.                                        *)
(***************************************************************************)
extractMainContent(page, url) == [dom |-> page, title |-> page.title, url |-> Str(url)]

(***************************************************************************)
(* autoExtractContent (src/app.js 343-382).                                *)
(***************************************************************************)
\* new Date(text).toISOString() throws a RangeError on an invalid date
DateThrows(d) == ~d.valid

ItemRawUrl(el, content) == Or(el.href, Or(content.dom.canonical, content.url))
ItemRawImage(el, content) == Or(el.img, Or(content.dom.ogImage, ""))
ItemDate(el, content, t) ==
  LET metaDate == IF IsSome(content.dom.ogTime) THEN Val(content.dom.ogTime) ELSE ISO(t)
  IN IF IsSome(el.date) THEN Val(el.date) ELSE metaDate

\* [] || ['默认标签'] is []: an array is truthy
ItemTags(el) == Take(el.tags, 5)

ItemThrows(el, content, t) ==
  \/ ~CanResolve(ItemRawUrl(el, content))
  \/ ~CanResolve(ItemRawImage(el, content))
  \/ DateThrows(ItemDate(el, content, t))

ItemError(el, content, t) ==
  IF ~CanResolve(ItemRawUrl(el, content)) \/ ~CanResolve(ItemRawImage(el, content))
    THEN MsgTypeError ELSE MsgRangeError

\* mutant: ids counted from one
ItemId_oneBased(index) == [str |-> TRUE, n |-> index + 1]

\* id: `${index}`, the string of the position in articleItems
ItemId(index) == [str |-> TRUE, n |-> index]

ListItem(el, index, content, t) ==
  [id |-> ItemId(index),
   url |-> Resolve(ItemRawUrl(el, content), content.url),
   title |-> IF el.h # "" THEN el.h ELSE PlaceholderItemTitle,
   image |-> Resolve(ItemRawImage(el, content), content.url),
   date_published |-> ISO(ItemDate(el, content, t).ms),
   tags |-> ItemTags(el)]

SyntheticItem(content, t) ==
  [id |-> [str |-> FALSE, n |-> 1],
   url |-> content.url,
   title |-> IF content.title # "" THEN content.title ELSE PlaceholderTitle,
   image |-> Or(content.dom.ogImage, Or(content.dom.firstImg, "")),
   date_published |-> ISO(t),
   tags |-> IF IsSome(content.dom.keywords)
              THEN Take(Val(content.dom.keywords), 5) ELSE <<PlaceholderTag>>]

\* $('main article, .article-list .item, ...').toArray(): one selector list, so
\* every element that matches any of its eight selectors, in document order.
\* An element's sel is the first of the selectors it matches, 0 for none.
Matches(el) == el.sel # 0
articleItems(content) == SelectSeq(content.dom.elems, Matches)

\* mutant: no fallback to the whole-page item
feedItems_noFallback(items, content, t) == items

\* items.length > 0 ? items : [{ ...the whole page... }]
feedItems(items, content, t) ==
  IF Len(items) > 0 THEN items ELSE <<SyntheticItem(content, t)>>

autoExtractContent(content, t) ==
  LET els == articleItems(content)
      bad == {i \in 1 .. Len(els) : ItemThrows(els[i], content, t)}
      items == [i \in 1 .. Len(els) |-> ListItem(els[i], i - 1, content, t)]
  IN IF bad # {}
       THEN [ok |-> FALSE,
             message |-> ItemError(els[CHOOSE i \in bad : \A j \in bad : i <= j], content, t),
             feed |-> <<>>]
       ELSE [ok |-> TRUE,
             message |-> "",
             feed |-> <<[version |-> FeedVersion,
                         title |-> IF content.title # "" THEN content.title ELSE PlaceholderTitle,
                         home_page_url |-> content.url,
                         feed_url |-> content.url \o "/feed",
                         description |-> Or(content.dom.description, DefaultDescription),
                         favicon |-> Or(content.dom.icon, ""),
                         items |-> feedItems(items, content, t)]>>]

(***************************************************************************)
(* processWithAI (src/app.js 392-421): the provider's answer and its two   *)
(* decodes.  A JSON text is [valid, ...]: valid is whether JSON.parse      *)
(* accepts it.                                                             *)
(***************************************************************************)
\* const data = await response.json();   -- outside the try block
BodyThrows(body) == ~body.valid

\* JSON.parse(data.choices[0].message.content)   -- inside the try block
ContentThrows(body) ==
  \/ Len(body.choices) = 0
  \/ ~body.choices[1].message.content.valid

decode(body) ==
  IF BodyThrows(body) THEN [ok |-> FALSE, message |-> MsgSyntaxError, value |-> <<>>]
  ELSE IF ContentThrows(body) THEN [ok |-> FALSE, message |-> MsgParseFailed, value |-> <<>>]
  ELSE [ok |-> TRUE, message |-> "", value |-> body.choices[1].message.content.value]

(***************************************************************************)
(* Handlers.  A slot holds a handler between its awaits.  out is what the  *)
(* current step showed: the arrival of a request with the limiter's        *)
(* verdict, and the response sent, if any, with the history of the request *)
(* it answers.  It is NoOut after a step that shows neither.               *)
(***************************************************************************)
FreeSlot ==
  [pc |-> "idle", q |-> <<>>, result |-> <<>>,
   \* history of what this request did so far
   fetched |-> FALSE, posted |-> FALSE, ref |-> <<>>]

NoOut ==
  [arrival |-> FALSE, admitted |-> FALSE, sent |-> FALSE,
   path |-> "", ip |-> "", q |-> <<>>, resp |-> NoResp,
   looked |-> FALSE, fetched |-> FALSE, posted |-> FALSE, wrote |-> FALSE,
   hit |-> FALSE, hitAge |-> 0, ord |-> 0, ref |-> <<>>]

\* what the network delivered in this step: the page fetch or the provider call
\* settled as kind (with this page <<page>>, or this body for the provider)
NoNet ==
  [stage |-> "none", kind |-> "", page |-> <<>>,
   body |-> [valid |-> TRUE, choices |-> <<>>]]
Delivered(stage, res) == [NoNet EXCEPT !.stage = stage, !.kind = res.kind]

\* the response resp to the request held in rec
Reply(rec, resp) ==
  [NoOut EXCEPT !.sent = TRUE, !.path = AnalyzePath, !.q = rec.q,
                !.resp = resp, !.looked = (rec.pc # "idle"), !.fetched = rec.fetched,
                !.posted = rec.posted, !.ref = rec.ref]

SlotFree(h) == hs[h].pc = "idle"
LowestFree(h) == SlotFree(h) /\ \A g \in Slots : g < h => ~SlotFree(g)

\* A handler resumed by a promise that is already settled runs before any new
\* request, timer or network completion is dispatched.
MicrotaskPending == \E h \in Slots : hs[h].pc = "built"

Put(m, k, v) == [x \in DOMAIN m \cup {k} |-> IF x = k THEN v ELSE m[x]]
Del(m, k) == [x \in DOMAIN m \ {k} |-> m[x]]

\* history: the window of ip as the contract counts it
WindowOpens(ip) == IF ip \in DOMAIN opened THEN now - opened[ip] > WindowMs ELSE TRUE

\* history: the cached response a repeated request is compared with
InTtlWindow(key, t) ==
  IF key \in DOMAIN firstCached THEN t - firstCached[key].at < TtlMs ELSE FALSE

\* mutant: the failure path stores an entry before it answers
respondError_caches(h, msg) ==
  LET key == cacheKey(QAi(hs[h].q), QUrl(hs[h].q))
  IN /\ out' = [Reply(hs[h], ErrorResp(500, msg)) EXCEPT !.wrote = TRUE]
     /\ hs' = [hs EXCEPT ![h] = FreeSlot]
     /\ myCache' = Put(myCache, key, <<>>)
     /\ insertedAt' = Put(insertedAt, key, now)
     /\ UNCHANGED <<timers, firstCached>>

\* mutant: the error is not caught and the request gets no envelope
respondError_escapes(h, msg) ==
  /\ out' = Reply(hs[h], [NoResp EXCEPT !.message = msg])
  /\ hs' = [hs EXCEPT ![h] = FreeSlot]
  /\ UNCHANGED <<myCache, timers, insertedAt, firstCached>>

\* handler's catch block (src/app.js 330-332): the error envelope, status 500
respondError(h, msg) ==
  /\ out' = Reply(hs[h], ErrorResp(500, msg))
  /\ hs' = [hs EXCEPT ![h] = FreeSlot]
  /\ UNCHANGED <<myCache, timers, insertedAt, firstCached>>

\* mutant: the parameters are validated before the limiter is asked
handler_validatesFirst(h, req) ==
  LET ip == ClientIp(req)
      q == req.q
      ai == QAi(q)
      url == QUrl(q)
      key == cacheKey(ai, url)
      onPath == req.path = AnalyzePath
      valid == ~BadUrl(q) /\ ~BadAi(ai)
      admitted == valid /\ limiter(requestCounts, ip, now)
      seen == IF WindowOpens(ip) THEN 1 ELSE arrived[ip] + 1
      rec == [FreeSlot EXCEPT !.q = q]
      lookedUp == [rec EXCEPT !.pc = "fetch",
                              !.ref = IF InTtlWindow(key, now)
                                        THEN <<firstCached[key]>> ELSE <<>>]
      answered == ~onPath \/ ~admitted \/ BadUrl(q) \/ BadAi(ai) \/ key \in DOMAIN myCache
      event(o) == [o EXCEPT !.arrival = TRUE, !.path = req.path, !.ip = ip, !.q = q,
                            !.admitted = (onPath /\ admitted),
                            !.ord = IF onPath THEN seen ELSE 0]
  IN /\ LowestFree(h)
     /\ ~MicrotaskPending
     /\ requestCounts' = IF onPath /\ valid THEN limiterSet(requestCounts, ip, now)
                         ELSE requestCounts
     /\ arrived' = IF onPath THEN Put(arrived, ip, seen) ELSE arrived
     /\ opened' = IF onPath /\ WindowOpens(ip) THEN Put(opened, ip, now) ELSE opened
     /\ out' = IF ~onPath THEN event(Reply(rec, NotFoundResp))
               ELSE IF BadUrl(q) THEN event(Reply(rec, ErrorResp(400, MsgBadUrl)))
               ELSE IF BadAi(ai) THEN event(Reply(rec, ErrorResp(400, MsgBadAi)))
               ELSE IF ~admitted THEN event(Reply(rec, ErrorResp(429, MsgRateLimited)))
               ELSE IF key \in DOMAIN myCache
                 THEN event([Reply(lookedUp, SuccessResp(myCache[key], now)) EXCEPT
                               !.hit = TRUE, !.hitAge = now - insertedAt[key]])
               ELSE event([NoOut EXCEPT !.looked = TRUE, !.fetched = TRUE])
     /\ hs' = IF answered THEN hs
              ELSE [hs EXCEPT ![h] = [lookedUp EXCEPT !.fetched = TRUE]]
     /\ net' = NoNet
     /\ UNCHANGED <<now, myCache, timers, insertedAt, firstCached>>

(***************************************************************************)
(* handler (src/app.js 295-322): from the request's arrival to the first   *)
(* await.                                                                  *)
(***************************************************************************)
handler(h, req) ==
  LET ip == ClientIp(req)
      q == req.q
      ai == QAi(q)
      url == QUrl(q)
      key == cacheKey(ai, url)
      onPath == req.path = AnalyzePath
      admitted == limiter(requestCounts, ip, now)
      seen == IF WindowOpens(ip) THEN 1 ELSE arrived[ip] + 1
      rec == [FreeSlot EXCEPT !.q = q]
      lookedUp == [rec EXCEPT !.pc = "fetch",
                              !.ref = IF InTtlWindow(key, now)
                                        THEN <<firstCached[key]>> ELSE <<>>]
      answered == ~onPath \/ ~admitted \/ BadUrl(q) \/ BadAi(ai) \/ key \in DOMAIN myCache
      event(o) == [o EXCEPT !.arrival = TRUE, !.path = req.path, !.ip = ip, !.q = q,
                            !.admitted = (onPath /\ admitted),
                            !.ord = IF onPath THEN seen ELSE 0]
  IN /\ LowestFree(h)
     /\ ~MicrotaskPending
     /\ requestCounts' = IF onPath THEN limiterSet(requestCounts, ip, now)
                         ELSE requestCounts
     /\ arrived' = IF onPath THEN Put(arrived, ip, seen) ELSE arrived
     /\ opened' = IF onPath /\ WindowOpens(ip) THEN Put(opened, ip, now) ELSE opened
     /\ out' = IF ~onPath THEN event(Reply(rec, NotFoundResp))
               ELSE IF ~admitted THEN event(Reply(rec, ErrorResp(429, MsgRateLimited)))
               ELSE IF BadUrl(q) THEN event(Reply(rec, ErrorResp(400, MsgBadUrl)))
               ELSE IF BadAi(ai) THEN event(Reply(rec, ErrorResp(400, MsgBadAi)))
               ELSE IF key \in DOMAIN myCache
                 THEN event([Reply(lookedUp, SuccessResp(myCache[key], now)) EXCEPT
                               !.hit = TRUE, !.hitAge = now - insertedAt[key]])
               ELSE event([NoOut EXCEPT !.looked = TRUE, !.fetched = TRUE])
     /\ hs' = IF answered THEN hs
              ELSE [hs EXCEPT ![h] = [lookedUp EXCEPT !.fetched = TRUE]]
     /\ net' = NoNet
     /\ UNCHANGED <<now, myCache, timers, insertedAt, firstCached>>

(***************************************************************************)
(* fetchWebContent settles (src/app.js 336-340), then handler 323-324:     *)
(* extractMainContent and the dispatch to autoExtractContent or to         *)
(* processWithAI up to its POST (392-412).                                 *)
(***************************************************************************)
fetchWebContent(h, res) ==
  LET rec == hs[h]
      ai == QAi(rec.q)
      url == QUrl(rec.q)
      content == extractMainContent(res.page, url)
      built == autoExtractContent(content, now)
      service == AI_SERVICES(ai)
      goes(pc, result, posted) ==
        /\ hs' = [hs EXCEPT ![h] = [rec EXCEPT !.pc = pc, !.result = result,
                                               !.posted = posted]]
        /\ out' = NoOut
        /\ UNCHANGED <<myCache, timers, insertedAt, firstCached>>
  IN /\ rec.pc = "fetch"
     /\ ~MicrotaskPending
     /\ ~ParsesAsUrl(url) => res.kind = "reject"
     /\ IF res.kind = "reject"
          THEN respondError(h, IF ParsesAsUrl(url) THEN MsgNetwork ELSE MsgTypeError)
        ELSE IF res.kind = "http_error" THEN respondError(h, MsgHttpError)
        ELSE IF Heuristic(ai)
          THEN IF built.ok THEN goes("built", built.feed, FALSE)
               ELSE respondError(h, built.message)
        ELSE IF NoCredential(service) THEN respondError(h, MsgNoKey)
        ELSE goes("ai_call", <<>>, TRUE)
     /\ net' = [Delivered("page", res) EXCEPT
                  !.page = IF res.kind = "ok" THEN <<res.page>> ELSE <<>>]
     /\ UNCHANGED <<now, requestCounts, arrived, opened, nreq>>

(***************************************************************************)
(* processWithAI settles (src/app.js 405-420).                             *)
(***************************************************************************)
processWithAI(h, res) ==
  LET rec == hs[h]
      d == decode(res.body)
  IN /\ rec.pc = "ai_call"
     /\ ~MicrotaskPending
     /\ IF res.kind = "reject" THEN respondError(h, MsgNetwork)
        ELSE IF res.kind = "http_error" THEN respondError(h, MsgAiHttpError)
        ELSE IF ~d.ok THEN respondError(h, d.message)
        ELSE /\ hs' = [hs EXCEPT ![h] = [rec EXCEPT !.pc = "built", !.result = <<d.value>>]]
             /\ out' = NoOut
             /\ UNCHANGED <<myCache, timers, insertedAt, firstCached>>
     /\ net' = [Delivered("ai", res) EXCEPT !.body = res.body]
     /\ UNCHANGED <<now, requestCounts, arrived, opened, nreq>>

\* mutant: an entry already under the key is kept, the new result dropped
store_keepsFirst(h) ==
  LET rec == hs[h]
      key == cacheKey(QAi(rec.q), QUrl(rec.q))
      result == rec.result[1]
  IN /\ rec.pc = "built"
     /\ myCache' = IF key \in DOMAIN myCache THEN myCache ELSE Put(myCache, key, result)
     /\ timers' = timers (+) SetToBag({[key |-> key, due |-> now + TtlMs]})
     /\ out' = [Reply(rec, SuccessResp(result, now)) EXCEPT !.wrote = TRUE]
     /\ hs' = [hs EXCEPT ![h] = FreeSlot]
     /\ insertedAt' = IF key \in DOMAIN myCache THEN insertedAt
                      ELSE Put(insertedAt, key, now)
     /\ firstCached' = IF InTtlWindow(key, now)
                         THEN [firstCached EXCEPT ![key].writes = @ + 1]
                       ELSE Put(firstCached, key,
                                [feed |-> result, at |-> now, generated_at |-> now,
                                 writes |-> 1])
     /\ net' = NoNet
     /\ UNCHANGED <<now, requestCounts, arrived, opened, nreq>>

(***************************************************************************)
(* handler 326-329: myCache.set, setTimeout, the success response.         *)
(***************************************************************************)
store(h) ==
  LET rec == hs[h]
      key == cacheKey(QAi(rec.q), QUrl(rec.q))
      result == rec.result[1]
  IN /\ rec.pc = "built"
     /\ myCache' = Put(myCache, key, result)
     /\ timers' = timers (+) SetToBag({[key |-> key, due |-> now + TtlMs]})
     /\ out' = [Reply(rec, SuccessResp(result, now)) EXCEPT !.wrote = TRUE]
     /\ hs' = [hs EXCEPT ![h] = FreeSlot]
     /\ insertedAt' = Put(insertedAt, key, now)
     /\ firstCached' = IF InTtlWindow(key, now)
                         THEN [firstCached EXCEPT ![key].writes = @ + 1]
                       ELSE Put(firstCached, key,
                                [feed |-> result, at |-> now, generated_at |-> now,
                                 writes |-> 1])
     /\ net' = NoNet
     /\ UNCHANGED <<now, requestCounts, arrived, opened, nreq>>

(***************************************************************************)
(* The callback of setTimeout(() => myCache.delete(cacheKey), ...) runs:   *)
(* not before it is due, and as late as the event loop gets to it.         *)
(***************************************************************************)
evict(t) ==
  /\ t \in BagToSet(timers)
  /\ now >= t.due
  /\ ~MicrotaskPending
  /\ timers' = timers (-) SetToBag({t})
  /\ myCache' = Del(myCache, t.key)
  /\ insertedAt' = Del(insertedAt, t.key)
  /\ out' = NoOut
  /\ net' = NoNet
  /\ UNCHANGED <<now, requestCounts, hs, arrived, opened, firstCached, nreq>>

\* Date.now() advances by d milliseconds.  Single milliseconds are taken only
\* right after a coarse instant (a multiple of the rate window).
Tick(d, limit) ==
  /\ now + d <= limit
  /\ d = 1 => now % WindowMs < MaxSub
  /\ now' = now + d
  /\ out' = NoOut
  /\ net' = NoNet
  /\ UNCHANGED <<requestCounts, myCache, timers, hs, arrived, opened,
                 insertedAt, firstCached, nreq>>

(***************************************************************************)
(* The environment: requests, pages and provider answers of the runs.      *)
(***************************************************************************)
NoHeaders == <<>>
Forwarded(ip) == [h \in {"x-forwarded-for"} |-> ip]

Q(ai, url) == [ai |-> ai, url |-> url]
QNoAi(url) == [url |-> url]
QNoUrl(ai) == [ai |-> ai]
Req(path, headers, q) == [path |-> path, headers |-> headers, q |-> q]

Elem(sel, h, href, img, date, tags) ==
  [sel |-> sel, h |-> h, href |-> href, img |-> img, date |-> date, tags |-> tags]

\* a page with a title and nothing the selectors match
PagePlain ==
  [title |-> "T", elems |-> <<>>, canonical |-> None, ogImage |-> None, ogTime |-> None,
   description |-> None, icon |-> None, keywords |-> None, firstImg |-> None]

\* two list items: one complete, one bare
PageList ==
  [PagePlain EXCEPT !.elems =
     <<Elem(7, "first", Some(AbsB), Some(RelY), Some(DateText(5)), <<"t1", "t2">>),
       Elem(7, "", None, None, None, <<>>)>>]

\* a list item whose date text Date cannot parse
PageJunkDate ==
  [PagePlain EXCEPT !.elems = <<Elem(7, "first", None, None, Some(DateJunk), <<>>)>>]

\* three list items of div[class*="post"]
PageThree ==
  [PagePlain EXCEPT !.elems =
     <<Elem(7, "a", Some(RelY), None, None, <<>>),
       Elem(7, "b", None, None, Some(DateText(5)), <<"t1">>),
       Elem(7, "c", Some(AbsB), Some(AbsB), None, <<>>)>>]

\* a paragraph no selector matches, between an item of 'main article' and an
\* item of div[class*="post"]
PageMixed ==
  [PagePlain EXCEPT !.elems =
     <<Elem(7, "post", None, None, None, <<>>),
       Elem(0, "para", Some(AbsB), None, None, <<>>),
       Elem(1, "article", None, None, None, <<>>)>>]

\* nothing the selectors match; no title; six keywords; a relative first image
PageMeta ==
  [PagePlain EXCEPT !.title = "",
                    !.elems = <<Elem(0, "para", None, None, None, <<"t1">>)>>,
                    !.keywords = Some(<<"k1", "k2", "k3", "k4", "k5", "k6">>),
                    !.firstImg = Some(RelY)]

\* nothing the selectors match; an absolute og:image
PageOgImage == [PagePlain EXCEPT !.ogImage = Some(AbsB)]

\* a list item with six tags, a relative link and a relative image
PageManyTags ==
  [PagePlain EXCEPT !.elems =
     <<Elem(3, "first", Some(RelY), Some(RelY), None,
            <<"t1", "t2", "t3", "t4", "t5", "t6">>)>>]

\* a list item without a date of its own, under a page-level date Date cannot parse
PageJunkMeta ==
  [PagePlain EXCEPT !.elems = <<Elem(7, "first", None, None, None, <<>>)>>,
                    !.ogTime = Some(DateJunk)]

PageOk(page) == [kind |-> "ok", page |-> page]
PageReject == [kind |-> "reject", page |-> PagePlain]
PageHttpError == [kind |-> "http_error", page |-> PagePlain]

\* JSON texts
NotJson == [valid |-> FALSE, value |-> <<>>]
Json(v) == [valid |-> TRUE, value |-> v]

DocItem ==
  [id |-> [str |-> TRUE, n |-> 1], url |-> AbsB, title |-> "item", image |-> "",
   date_published |-> ISO(5), tags |-> <<"t1", "t2">>]
DocFull ==
  [version |-> FeedVersion, title |-> "AI feed", home_page_url |-> "http://a.com",
   feed_url |-> "http://a.com/feed", description |-> "d", favicon |-> "",
   items |-> <<DocItem>>]
DocNoItems ==
  [version |-> FeedVersion, title |-> "AI feed", home_page_url |-> "http://a.com",
   feed_url |-> "http://a.com/feed", description |-> "d", favicon |-> ""]
DocEmpty == <<>>
\* a complete document whose item has six tags
DocManyTags ==
  [DocFull EXCEPT !.items =
     <<[DocItem EXCEPT !.tags = <<"t1", "t2", "t3", "t4", "t5", "t6">>]>>]

\* provider response bodies
BodyNotJson == [valid |-> FALSE, choices |-> <<>>]
BodyNoEnvelope == [valid |-> TRUE, choices |-> <<>>]
Body(content) == [valid |-> TRUE, choices |-> <<[message |-> [content |-> content]]>>]

AiOk(body) == [kind |-> "ok", body |-> body]
AiReject == [kind |-> "reject", body |-> BodyNoEnvelope]
AiHttpError == [kind |-> "http_error", body |-> BodyNoEnvelope]

Init ==
  /\ now = 0
  /\ requestCounts = <<>>
  /\ myCache = <<>>
  /\ timers = EmptyBag
  /\ hs = [h \in Slots |-> FreeSlot]
  /\ out = NoOut
  /\ net = NoNet
  /\ arrived = <<>>
  /\ opened = <<>>
  /\ insertedAt = <<>>
  /\ firstCached = <<>>
  /\ nreq = 0

(***************************************************************************)
(* SpecRate: the rate limiter driven past its limit and across a window    *)
(* boundary.  The client without a forwarded-for header sends up to        *)
(* MaxOver requests more than the limit in a window, a second client up to *)
(* MaxOther.  Every page fetch of these runs fails, so nothing is cached   *)
(* and no timer is set.                                                    *)
(***************************************************************************)
RateReqs ==
  {Req(AnalyzePath, hd, q) :
     hd \in {NoHeaders, Forwarded("10.0.0.1")},
     q \in {Q("rebot", UrlHttp), Q("rebot", UrlFtp)}}

Budget(ip) == IF ip = "127.0.0.1" THEN MaxCount + MaxOver ELSE MaxOther

WithinBudget(req) ==
  LET ip == ClientIp(req)
  IN IF WindowOpens(ip) THEN TRUE ELSE arrived[ip] < Budget(ip)

NextRate ==
  \/ \E h \in Slots, req \in RateReqs :
       WithinBudget(req) /\ handler(h, req) /\ nreq' = nreq
  \/ \E h \in Slots : fetchWebContent(h, PageReject)
  \/ \E d \in {1, WindowMs} : Tick(d, WindowMs + MaxSub)

SpecRate == Init /\ [][NextRate]_vars

(***************************************************************************)
(* Spec: the pipeline under every kind of request, page and provider       *)
(* answer, MaxPipe requests a run.  No timer falls due within these runs.  *)
(***************************************************************************)
Modes == {"rebot", "auto", "openai", "claude", "constructor"}
Urls == {UrlHttp, UrlHttpx, UrlFtp}

Queries ==
  {Q(ai, url) : ai \in Modes, url \in Urls}
    \cup {QNoAi(url) : url \in Urls} \cup {QNoUrl("rebot")}

Reqs == {Req(AnalyzePath, NoHeaders, q) : q \in Queries}

PageResults == {PageOk(PagePlain), PageOk(PageList), PageOk(PageJunkDate),
                PageReject, PageHttpError}

AiResults ==
  {AiReject, AiHttpError, AiOk(BodyNotJson), AiOk(BodyNoEnvelope), AiOk(Body(NotJson)),
   AiOk(Body(Json(DocFull))), AiOk(Body(Json(DocNoItems))), AiOk(Body(Json(DocEmpty)))}

Next ==
  \/ \E h \in Slots, req \in Reqs : nreq < MaxPipe /\ handler(h, req) /\ nreq' = nreq + 1
  \/ \E h \in Slots, res \in PageResults : fetchWebContent(h, res)
  \/ \E h \in Slots, res \in AiResults : processWithAI(h, res)
  \/ \E h \in Slots : store(h)
  \/ Tick(1, MaxSub)

Spec == Init /\ [][Next]_vars

(***************************************************************************)
(* SpecLive: the runs of Spec under the scheduling the runtime guarantees: *)
(* a handler whose awaited promise has settled is resumed (store).  That   *)
(* a remote host answers or refuses is not guaranteed, and the code sets   *)
(* no timer on its fetch calls (src/app.js 337, 405) that would settle     *)
(* them otherwise.                                                         *)
(***************************************************************************)
SpecLive == Init /\ [][Next]_vars /\ WF_vars(\E h \in Slots : store(h))

(***************************************************************************)
(* SpecCache: one cache key, requested MaxReq times, over a span a little  *)
(* longer than the TTL, with the eviction timers.                          *)
(***************************************************************************)
CacheReqs == {Req(AnalyzePath, NoHeaders, Q("rebot", UrlHttp))}

NextCache ==
  \/ \E h \in Slots, req \in CacheReqs :
       nreq < MaxReq /\ handler(h, req) /\ nreq' = nreq + 1
  \/ \E h \in Slots, res \in {PageOk(PagePlain), PageReject} : fetchWebContent(h, res)
  \/ \E h \in Slots : store(h)
  \/ \E t \in BagToSet(timers) : evict(t)
  \/ \E d \in {1, TtlMs} : Tick(d, TtlMs + MaxSub)

SpecCache == Init /\ [][NextCache]_vars

(***************************************************************************)
(* SpecGate: one client past its limit and across a window boundary, with  *)
(* the cache at work: requests for one good url, whose page fetch          *)
(* succeeds, for a url that fails validation, and for another path.        *)
(***************************************************************************)
GateReqs ==
  {Req(AnalyzePath, NoHeaders, q) : q \in {Q("rebot", UrlHttp), Q("rebot", UrlFtp)}}
    \cup {Req("/", NoHeaders, Q("rebot", UrlHttp))}

NextGate ==
  \/ \E h \in Slots, req \in GateReqs :
       WithinBudget(req) /\ handler(h, req) /\ nreq' = nreq
  \/ \E h \in Slots : fetchWebContent(h, PageOk(PagePlain))
  \/ \E h \in Slots : store(h)
  \/ \E d \in {1, WindowMs} : Tick(d, WindowMs + MaxSub)

SpecGate == Init /\ [][NextGate]_vars

(***************************************************************************)
(* SpecFeed: the two feed builders over pages of every shape, MaxFeed      *)
(* requests a run.  Every page fetch succeeds and every provider answer    *)
(* decodes.                                                                *)
(***************************************************************************)
FeedPages ==
  {PagePlain, PageList, PageThree, PageMixed, PageMeta, PageOgImage, PageManyTags,
   PageJunkDate, PageJunkMeta}

FeedReqs ==
  {Req(AnalyzePath, NoHeaders, q) :
     q \in {Q(ai, url) : ai \in {"rebot", "openai"}, url \in {UrlHttp, UrlHttps}}
             \cup {QNoAi(UrlHttps)}}

NextFeed ==
  \/ \E h \in Slots, req \in FeedReqs :
       nreq < MaxFeed /\ handler(h, req) /\ nreq' = nreq + 1
  \/ \E h \in Slots, page \in FeedPages : fetchWebContent(h, PageOk(page))
  \/ \E h \in Slots, doc \in {DocFull, DocManyTags} :
       processWithAI(h, AiOk(Body(Json(doc))))
  \/ \E h \in Slots : store(h)
  \/ Tick(1, MaxSub)

SpecFeed == Init /\ [][NextFeed]_vars

C2_NoStaleHit == out.hit => out.hitAge <= TtlMs

(***************************************************************************)
(* C3.  As stated: a request that arrives while the first cached response  *)
(* of its key (out.ref) is less than a TTL old is answered with the feed   *)
(* fields of that first response and a strictly later generated_at.        *)
(***************************************************************************)
C3_RepeatIdentical ==
  (out.sent /\ out.looked /\ out.ref # <<>>) =>
    /\ out.resp.status = 200
    /\ out.resp.data = <<out.ref[1].feed>>
    /\ out.resp.generated_at > out.ref[1].generated_at

(***************************************************************************)
(* C3, amended.  A request answered from the cache gets exactly the value  *)
(* stored under its key, which has no generated_at of its own, with        *)
(* generated_at stamped at response time: never earlier than that of the   *)
(* first cached response, and the fields are those of the first response   *)
(* whenever no other build has written the key since.                      *)
(***************************************************************************)
C3_HitReturnsStored ==
  out.hit =>
    LET key == cacheKey(QAi(out.q), QUrl(out.q))
    IN /\ out.resp.status = 200
       /\ out.resp.data = <<myCache[key]>>
       /\ out.resp.generated_at = now
       /\ "generated_at" \notin DOMAIN myCache[key]
       /\ out.ref # <<>> =>
            /\ out.resp.generated_at >= out.ref[1].generated_at
            /\ out.ref[1].writes = 1 => out.resp.data = <<out.ref[1].feed>>

\* a repeated request within the TTL window, answered from the cache later
\* than the first response
C3_Witness ==
  /\ out.hit
  /\ out.ref # <<>>
  /\ out.resp.data = <<out.ref[1].feed>>
  /\ out.resp.generated_at > out.ref[1].generated_at

(***************************************************************************)
(* C4.  As stated: a request with mode "auto" and a url that begins with   *)
(* http:// or https:// is never answered 400.                              *)
(***************************************************************************)
HttpPrefixed(q) ==
  /\ HasUrl(q)
  /\ \/ startsWith(q.url, S_http \o <<":", "/", "/">>)
     \/ startsWith(q.url, S_http \o <<"s", ":", "/", "/">>)

C5_BadUrlRejected ==
  /\ (out.arrival /\ out.admitted /\ ~HttpPrefixed(out.q)) =>
       /\ out.sent
       /\ out.resp.status = 400
       /\ ~out.looked /\ ~out.fetched /\ ~out.wrote
  /\ \A h \in Slots : hs[h].pc # "idle" => HttpPrefixed(hs[h].q)

(***************************************************************************)
(* C6.  A request whose mode is given, is not a key of the provider table  *)
(* and is not a sentinel is answered 400 at once, before any network call  *)
(* (stated here for the requests whose url is well-formed, so that the     *)
(* mode is the only thing to reject).                                      *)
(***************************************************************************)
C6_UnknownModeRejected ==
  (/\ out.arrival /\ out.admitted
   /\ HttpPrefixed(out.q)
   /\ ~Falsy(QAi(out.q))
   /\ QAi(out.q) \notin OwnKeys \cup {"rebot", "auto"}) =>
    /\ out.sent
    /\ out.resp.status = 400
    /\ ~out.fetched /\ ~out.posted /\ ~out.wrote

(***************************************************************************)
(* C7.  A request whose page fetch, extraction or feed building fails: the *)
(* step in which a handler ends on what the network delivered (a success   *)
(* ends in store, never there) sends the error envelope with status 500    *)
(* and leaves the cache and the pending timers exactly as they were.       *)
(***************************************************************************)
InFlight == {h \in Slots : hs[h].pc # "idle"}

EndsOnDelivery ==
  /\ net'.stage # "none"
  /\ \E h \in Slots : hs[h].pc \in {"fetch", "ai_call"} /\ hs'[h].pc = "idle"

C7_FailureLeavesCache ==
  [][ /\ EndsOnDelivery =>
           /\ out'.sent
           /\ out'.resp.status = 500
           /\ out'.resp.message # ""
           /\ out'.resp.data = <<>>
           /\ ~out'.wrote
           /\ myCache' = myCache
           /\ timers' = timers
      /\ net'.kind \in {"reject", "http_error"} => EndsOnDelivery
    ]_vars

\* a feed build that failed while another key's entry sat in the cache
C7_Witness ==
  /\ out.sent
  /\ out.resp.status = 500
  /\ out.fetched
  /\ net.stage = "page" /\ net.kind = "ok"
  /\ DOMAIN myCache # {}

(***************************************************************************)
(* C8.  Every response to /api/analyze is the success envelope with status *)
(* 200 or the error envelope with status 400, 429 or 500; a handler ends   *)
(* only by sending a response, and a step sends at most one: to the        *)
(* request that arrives in it, or to the one handler that ends in it.      *)
(***************************************************************************)
Envelope(resp) ==
  /\ resp.status \in {200, 400, 429, 500}
  /\ resp.status = 200 <=> resp.data # <<>>
  /\ resp.status # 200 <=> resp.message # ""

C8_OneEnvelope ==
  [][ /\ (out'.sent /\ out'.path = AnalyzePath) => Envelope(out'.resp)
      /\ (out'.sent /\ out'.arrival) => InFlight' = InFlight
      /\ (out'.sent /\ ~out'.arrival) =>
           \E h \in InFlight : InFlight' = InFlight \ {h}
      /\ ~out'.sent => InFlight \subseteq InFlight'
    ]_vars

\* a raw runtime error was caught and answered with the envelope
C8_Witness ==
  /\ out.sent
  /\ out.resp.status = 500
  /\ out.resp.message \in {MsgTypeError, MsgRangeError, MsgSyntaxError}

(***************************************************************************)
(* C9.  Every success response carries a feed with all the required       *)
(* fields and at least one item.                                           *)
(***************************************************************************)
RequiredFields ==
  {"version", "title", "home_page_url", "feed_url", "description", "favicon", "items"}

C9_RequiredFields ==
  (out.sent /\ out.resp.status = 200) =>
    /\ RequiredFields \subseteq DOMAIN out.resp.data[1]
    /\ IF "items" \in DOMAIN out.resp.data[1]
         THEN Len(out.resp.data[1].items) > 0 ELSE FALSE

(***************************************************************************)
(* C10.  When the provider answers with HTTP success and its body is not   *)
(* JSON, has no choices[0].message.content, or that content is not JSON,   *)
(* the request is answered 500 with the fixed message of the AI builder.   *)
(***************************************************************************)
C10_FixedParseError ==
  (/\ net.stage = "ai" /\ net.kind = "ok"
   /\ \/ ~net.body.valid
      \/ Len(net.body.choices) = 0
      \/ ~net.body.choices[1].message.content.valid) =>
    /\ out.sent
    /\ out.resp.status = 500
    /\ out.resp.message = MsgParseFailed

(***************************************************************************)
(* The feed the heuristic builder has just made of the page delivered in   *)
(* this step: the handler it belongs to is at "built", about to store it.  *)
(***************************************************************************)
PageDelivered == net.stage = "page" /\ net.kind = "ok"
HeuristicBuilt == {h \in Slots : hs[h].pc = "built" /\ Heuristic(QAi(hs[h].q))}
MatchedOf(page) == {i \in 1 .. Len(page.elems) : page.elems[i].sel # 0}

(***************************************************************************)
(* C11.  For a page on which no list selector matches any element the      *)
(* heuristic builder does not fail and returns a feed with exactly one     *)
(* item, the whole-page item (url the page's url, title the page's title   *)
(* or the placeholder); and no heuristic feed has an empty items sequence. *)
(***************************************************************************)
C11_SyntheticSingleItem ==
  /\ \A h \in HeuristicBuilt : Len(hs[h].result[1].items) >= 1
  /\ (PageDelivered /\ MatchedOf(net.page[1]) = {}) =>
       /\ out.sent => ~Heuristic(QAi(out.q))
       /\ \A h \in HeuristicBuilt :
            LET items == hs[h].result[1].items
                page == net.page[1]
            IN /\ Len(items) = 1
               /\ items[1].url = Str(QUrl(hs[h].q))
               /\ items[1].title = IF page.title # "" THEN page.title ELSE PlaceholderTitle
               /\ items[1].date_published = ISO(now)

\* a page with an element, but none a selector matches, made into a feed
C11_Witness ==
  /\ PageDelivered
  /\ MatchedOf(net.page[1]) = {}
  /\ Len(net.page[1].elems) > 0
  /\ \E h \in HeuristicBuilt : Len(hs[h].result[1].items) = 1

(***************************************************************************)
(* C12.  For a page with n >= 1 elements matching the list pattern the     *)
(* heuristic feed has exactly n items, in document order (the k-th item    *)
(* carries the title of the k-th matched element), and the item at         *)
(* zero-based position k has the string of k as its id, so the ids are     *)
(* pairwise distinct.                                                      *)
(***************************************************************************)
NthMatched(page, k) ==
  CHOOSE i \in MatchedOf(page) : Cardinality({j \in MatchedOf(page) : j < i}) = k - 1

C12_PositionalIds ==
  (PageDelivered /\ MatchedOf(net.page[1]) # {}) =>
    \A h \in HeuristicBuilt :
      LET items == hs[h].result[1].items
          page == net.page[1]
      IN /\ Len(items) = Cardinality(MatchedOf(page))
         /\ \A k \in 1 .. Len(items) :
              /\ items[k].id = [str |-> TRUE, n |-> k - 1]
              /\ items[k].title =
                   IF page.elems[NthMatched(page, k)].h # ""
                     THEN page.elems[NthMatched(page, k)].h ELSE PlaceholderItemTitle
         /\ \A k, l \in 1 .. Len(items) : items[k].id = items[l].id => k = l

\* three list items made into the items "0", "1", "2"
C12_Witness ==
  /\ PageDelivered
  /\ \E h \in HeuristicBuilt :
       /\ Len(hs[h].result[1].items) = 3
       /\ hs[h].result[1].items[3].id = [str |-> TRUE, n |-> 2]
       /\ hs[h].result[1].items[3].title = "c"

(***************************************************************************)
(* C13.  Every item of every feed sent in a success response, built by the *)
(* heuristic builder or decoded from the provider's answer, has at most 5  *)
(* tags.                                                                   *)
(***************************************************************************)
ItemsOf(feed) == IF "items" \in DOMAIN feed THEN feed.items ELSE <<>>

C13_TagsAtMostFive ==
  (out.sent /\ out.resp.status = 200) =>
    \A k \in 1 .. Len(ItemsOf(out.resp.data[1])) :
      Len(ItemsOf(out.resp.data[1])[k].tags) <= 5

(***************************************************************************)
(* C14.  Every item of a heuristic feed, list item and whole-page item     *)
(* alike, has an absolute url and, when it has an image, an absolute       *)
(* image.                                                                  *)
(***************************************************************************)
AbsoluteUrls ==
  {"http://a.com", "http://a.com/", "https://a.com/x/", "https://b.com/p",
   "http://a.com/y.jpg", "https://a.com/y.jpg"}

C14_AbsoluteUrls ==
  \A h \in HeuristicBuilt :
    \A k \in 1 .. Len(hs[h].result[1].items) :
      LET item == hs[h].result[1].items[k]
      IN /\ item.url \in AbsoluteUrls
         /\ item.image # "" => item.image \in AbsoluteUrls

(***************************************************************************)
(* C15.  With handlers in flight in any interleaving, the counter of every *)
(* client is the number of its requests admitted in its current window:    *)
(* the number of requests seen since the window opened (history variable   *)
(* arrived), capped at 100; it never exceeds 100, and the window's start   *)
(* is the arrival time of the request that opened it.                      *)
(***************************************************************************)
Min(a, b) == IF a <= b THEN a ELSE b

C15_NoLostUpdate ==
  /\ DOMAIN requestCounts = DOMAIN arrived
  /\ \A ip \in DOMAIN requestCounts :
       /\ requestCounts[ip].count = Min(arrived[ip], MaxCount)
       /\ requestCounts[ip].count <= MaxCount
       /\ requestCounts[ip].timestamp = opened[ip]

\* a request admitted while as many handlers as can overlap are in flight,
\* and the counter has counted all of them
C15_Witness ==
  /\ out.arrival /\ out.admitted
  /\ Cardinality(InFlight) = MaxSlots
  /\ requestCounts[out.ip].count >= MaxSlots + 1
  /\ requestCounts[out.ip].count = arrived[out.ip]

(***************************************************************************)
(* C16.  Every request that has issued its page fetch or its provider call *)
(* eventually receives a response: its handler ends.                       *)
(***************************************************************************)
C16_EventuallyAnswered ==
  \A h \in Slots : (hs[h].pc \in {"fetch", "ai_call"}) ~> (hs[h].pc = "idle")

(***************************************************************************)
(* C17.  An entry leaves the cache only when it is at least a TTL old,     *)
(* measured from its own insertion (history variable insertedAt): no       *)
(* eviction removes an entry that is younger.                              *)
(***************************************************************************)
C17_EvictionRespectsAge ==
  [][ \A key \in DOMAIN myCache :
        key \notin DOMAIN myCache' => now - insertedAt[key] >= TtlMs ]_vars

(***************************************************************************)
(* C18.  Requests for the same key are not coalesced.  A valid request is  *)
(* answered from the cache exactly when its key is in the cache at its     *)
(* arrival; otherwise it issues its own page fetch, whatever other         *)
(* handlers are in flight for the key.  Every page delivered is built into *)
(* a feed by the handler it was delivered to, and every handler that has   *)
(* built responds with its own result and writes it under the key, so the  *)
(* entry is that of whichever wrote last.                                  *)
(***************************************************************************)
KeyOf(q) == cacheKey(QAi(q), QUrl(q))

C18_NoCoalescing ==
  [][ /\ (out'.arrival /\ out'.admitted) =>
           /\ out'.hit <=> KeyOf(out'.q) \in DOMAIN myCache
           /\ ~out'.hit =>
                /\ ~out'.sent /\ out'.fetched
                /\ \E h \in Slots \ InFlight :
                     /\ InFlight' = InFlight \cup {h}
                     /\ hs'[h].pc = "fetch"
                     /\ hs'[h].q = out'.q
      /\ (net'.stage = "page" /\ net'.kind = "ok") =>
           \E h \in Slots : hs[h].pc = "fetch" /\ hs'[h].pc = "built"
      /\ \A h \in Slots :
           (hs[h].pc = "built" /\ hs'[h].pc # "built") =>
             /\ out'.wrote
             /\ out'.resp.status = 200
             /\ out'.resp.data = hs[h].result
             /\ myCache'[KeyOf(hs[h].q)] = hs[h].result[1]
    ]_vars

\* the second of two overlapping builds of a key has just written its own,
\* different result over the first's
C18_Witness ==
  /\ out.wrote
  /\ firstCached[KeyOf(out.q)].writes >= 2
  /\ myCache[KeyOf(out.q)] = out.resp.data[1]
  /\ myCache[KeyOf(out.q)] # firstCached[KeyOf(out.q)].feed
  /\ out.ref = <<>>

(***************************************************************************)
(* C19.  The items of a heuristic feed come only from the elements of the  *)
(* first selector, in priority order, that matches any element of the      *)
(* page: there are as many items as elements of that selector.             *)
(***************************************************************************)
FirstSelector(page) ==
  CHOOSE s \in {page.elems[i].sel : i \in MatchedOf(page)} :
    \A i \in MatchedOf(page) : s <= page.elems[i].sel

C19_FirstSelectorOnly ==
  (PageDelivered /\ MatchedOf(net.page[1]) # {}) =>
    \A h \in HeuristicBuilt :
      Len(hs[h].result[1].items) =
        Cardinality({i \in MatchedOf(net.page[1]) :
                       net.page[1].elems[i].sel = FirstSelector(net.page[1])})

(***************************************************************************)
(* C20.  The heuristic builder never fails on a fetched page: a request in *)
(* heuristic mode whose page was delivered is not answered 500.            *)
(***************************************************************************)
C20_BuilderNeverFails ==
  (PageDelivered /\ out.sent /\ Heuristic(QAi(out.q))) => out.resp.status # 500

(***************************************************************************)
(* C21.  Every list item of a heuristic feed has at least one tag: an item *)
(* made of an element without tag, category or keyword links carries the   *)
(* single placeholder tag.                                                 *)
(***************************************************************************)
C21_PlaceholderTag ==
  (PageDelivered /\ MatchedOf(net.page[1]) # {}) =>
    \A h \in HeuristicBuilt :
      \A k \in 1 .. Len(hs[h].result[1].items) :
        LET el == net.page[1].elems[NthMatched(net.page[1], k)]
        IN el.tags = <<>> => hs[h].result[1].items[k].tags = <<PlaceholderTag>>

(***************************************************************************)
(* C22.  As stated: a request with a well-formed url whose mode names a    *)
(* provider of the table without a credential is answered 500 with the     *)
(* configuration error, with no POST to the provider and no cache write.   *)
(***************************************************************************)
Unconfigured(q) == QAi(q) \in OwnKeys \ Configured /\ HttpPrefixed(q)

C22_ConfigError ==
  (out.sent /\ Unconfigured(out.q)) =>
    /\ out.resp.status = 500
    /\ out.resp.message = MsgNoKey
    /\ ~out.posted /\ ~out.wrote

(***************************************************************************)
(* C22, amended.  Such a request always ends in a 500 envelope with no     *)
(* POST to the provider and no cache write, and its key is never cached.   *)
(* The credential is checked only once the page has been fetched: the      *)
(* error is the configuration error when the page fetch succeeded, and the *)
(* page fetch's own error otherwise.                                       *)
(***************************************************************************)
C22_NoPostWithoutCredential ==
  /\ (out.arrival /\ out.admitted /\ Unconfigured(out.q)) => (~out.sent /\ out.fetched)
  /\ (out.sent /\ Unconfigured(out.q)) =>
       /\ out.resp.status = 500
       /\ ~out.posted /\ ~out.wrote
       /\ net.stage = "page"
       /\ out.resp.message = MsgNoKey <=> net.kind = "ok"
       /\ net.kind # "ok" => out.resp.message \in {MsgNetwork, MsgHttpError}
  /\ \A h \in Slots : Unconfigured(hs[h].q) => (hs[h].pc = "fetch" /\ ~hs[h].posted)
  /\ \A key \in DOMAIN myCache : key[2] \notin OwnKeys \ Configured

\* the page was fetched and the missing credential then ended the request
C22_Witness ==
  /\ out.sent
  /\ Unconfigured(out.q)
  /\ out.resp.message = MsgNoKey
  /\ net.stage = "page" /\ net.kind = "ok"

(***************************************************************************)
(* C23.  The limiter is the first step of every request to /api/analyze.   *)
(* A request it rejects is answered 429 at once, whatever its parameters   *)
(* and whatever the cache holds: no lookup, no outbound call, no cache     *)
(* write, no timer, no handler left in flight.  A request it admits is     *)
(* counted in its client's window, whether it is then answered 400, served *)
(* from the cache or sent on to the page fetch: the counter is the         *)
(* request's ordinal in its window (history variables arrived, opened).    *)
(***************************************************************************)
C23_LimiterFirst ==
  [][ (out'.arrival /\ out'.path = AnalyzePath) =>
        /\ ~out'.admitted =>
             /\ out'.sent /\ out'.resp.status = 429
             /\ ~out'.looked /\ ~out'.fetched /\ ~out'.posted
             /\ ~out'.wrote /\ ~out'.hit
             /\ myCache' = myCache /\ timers' = timers /\ InFlight' = InFlight
        /\ out'.admitted => requestCounts'[out'.ip].count = out'.ord
        /\ (out'.sent /\ out'.resp.status # 429) => out'.admitted
    ]_vars

\* the request past the limit asks for a key that is in the cache, and is
\* rejected all the same
C23_Witness ==
  /\ out.arrival /\ ~out.admitted
  /\ out.resp.status = 429
  /\ KeyOf(out.q) \in DOMAIN myCache
  /\ requestCounts[out.ip].count = MaxCount

(***************************************************************************)
(* C24.  Every window that exists has a count from 1 to 100, before and    *)
(* after every step, and a request the limiter rejects leaves the whole    *)
(* map of windows as it was: its own client's count and window start, and  *)
(* every other client's window.                                            *)
(***************************************************************************)
CountsInRange(rc) == \A ip \in DOMAIN rc : rc[ip].count \in 1 .. MaxCount

C24_RejectedLeavesWindows ==
  [][ /\ CountsInRange(requestCounts) /\ CountsInRange(requestCounts')
      /\ (out'.arrival /\ out'.path = AnalyzePath /\ ~out'.admitted) =>
           requestCounts' = requestCounts
    ]_vars

\* a request rejected some time after its window opened, while another
\* client has a window of its own
C24_Witness ==
  /\ out.arrival /\ out.path = AnalyzePath /\ ~out.admitted
  /\ now > requestCounts[out.ip].timestamp
  /\ now - requestCounts[out.ip].timestamp <= WindowMs
  /\ \E other \in DOMAIN requestCounts \ {out.ip} :
       requestCounts[other].count < MaxCount

====
